---- MODULE Spec2Model ----
(***************************************************************************)
(* Model of doc_comments_ai/llm.py (class LLM: backend selection in        *)
(* __init__, the optional llama-cpp installation step, prompt construction *)
(* and backend invocation in generate_doc_comment) and of the file loop of *)
(* docgen.py.                                                              *)
(*                                                                         *)
(* Strings on which the code performs string operations (startswith,       *)
(* strip, concatenation) are sequences of one-character strings; opaque    *)
(* strings (paths, URLs, languages, code) are TLA+ strings.  An optional   *)
(* value is None (the empty tuple) or Some(v) (a one-element tuple).       *)
(* A prompt text is a sequence of segments: literal sentences of the       *)
(* source and the substituted values (language, docstring, code).          *)
(***************************************************************************)
EXTENDS Integers, Sequences, FiniteSets, TLC

VARIABLES
    pc,           \* "start" (no LLM object yet), "idle", "invoking" (inside self.llm.invoke)
    args,         \* the arguments LLM.__init__ was called with
    env,          \* what install_llama_cpp met: import result, answer, flavor, pip result
    llm,          \* self.llm: None before construction, Some(handle) after
    built,        \* the backend handles constructed so far, in order
    stdout,       \* lines printed by install_llama_cpp
    call,         \* the current (or last) generate_doc_comment call: None or Some(record)
    repeated,     \* the current call's input equals the previous call's input
    calls,        \* number of generate_doc_comment calls started
    invocations,  \* number of self.llm.invoke calls made
    backendOut,   \* what the backend produced for the last invocation
    result,       \* how the last finished generate_doc_comment call ended
    fileIdx,      \* docgen: number of files of the walk already visited
    first,        \* docgen: the `first` flag of the file loop
    argv,         \* docgen: sys.argv after the -p/--path pair was removed
    curFile       \* docgen: the file main() is running on, or None

vars == <<pc, args, env, llm, built, stdout, call, repeated, calls, invocations,
          backendOut, result, fileIdx, first, argv, curFile>>

llmVars    == <<args, env, llm, built, stdout>>
callVars   == <<call, repeated, calls, invocations, backendOut, result>>
driverVars == <<fileIdx, first, argv, curFile>>

\* -------------------------------------------------------------- bounds
MaxCalls  == 2   \* generate_doc_comment calls per run
MaxDocLen == 2   \* characters of an existing docstring
MaxFiles  == 2   \* files the directory walk yields

\* -------------------------------------------------------------- values
None    == << >>
Some(v) == <<v>>
Get(o)  == o[1]

Range(s) == {s[i] : i \in 1..Len(s)}

\* GptModel members and their values
GptModel == {"GPT_35", "GPT_35_16K", "GPT_4"}

GptModelValue(m) ==
    CASE m = "GPT_35"     -> <<"g","p","t","-","3",".","5","-","t","u","r","b","o">>
      [] m = "GPT_35_16K" -> <<"g","p","t","-","3",".","5","-","t","u","r","b","o","-","1","6","k">>
      [] m = "GPT_4"      -> <<"g","p","t","-","4">>

\* Inputs of the constructor
LocalModels == {None, Some("/models/codellama.gguf")}
AzureDeployments == {None, Some(<< >>), Some(<<"p","r","o","d">>)}
OllamaUrls  == {"http://localhost:11434"}
OllamaNames == { <<"l","l","a","m","a","3">>,
                 <<"l","l","a","m","a">>,
                 <<"L","l","a","m","a","2">>,
                 <<"l","l","a","m">>,
                 <<"c","o","d","e","l","l","a","m","a">>,
                 <<"m","i","s","t","r","a","l">> }
Ollamas == {None} \cup {Some(<<u, n>>) : u \in OllamaUrls, n \in OllamaNames}

\* -------------------------------------------------------------- str helpers
\* str.startswith(prefix)
startswith(s, prefix) ==
    /\ Len(s) >= Len(prefix)
    /\ \A i \in 1..Len(prefix) : s[i] = prefix[i]

\* characters str.strip() removes
Whitespace == {" ", "\t", "\n", "\r"}

RECURSIVE lstrip(_)
lstrip(s) == IF s # << >> /\ Head(s) \in Whitespace THEN lstrip(Tail(s)) ELSE s

RECURSIVE rstrip(_)
rstrip(s) ==
    IF s # << >> /\ s[Len(s)] \in Whitespace THEN rstrip(SubSeq(s, 1, Len(s) - 1)) ELSE s

strip(s) == rstrip(lstrip(s))

\* -------------------------------------------------------------- LLM.__init__
\* max_tokens = 2048 if model == GptModel.GPT_35 else 4096
default_max_tokens(model) == IF model = "GPT_35" THEN 2048 ELSE 4096

LlamaPrefix == <<"l","l","a","m","a">>

\* variant: the long-context override is missing
OllamaMaxTokensNoOverride(name, max_tokens) == max_tokens

\* if ollama[1].startswith('llama'): max_tokens = 32768
ollama_max_tokens(name, max_tokens) ==
    IF startswith(name, LlamaPrefix) THEN 32768 ELSE max_tokens

Handle(cls, model_path, model, base_url, max_tokens, num_ctx) ==
    [cls |-> cls, model_path |-> model_path, model |-> model, base_url |-> base_url,
     temperature |-> "0.8", max_tokens |-> max_tokens, num_ctx |-> num_ctx]

AzurePrefix == <<"a","z","u","r","e","/">>

\* variant: the deployment is tested before the local file
CreateBackendAzureFirst(model, local_model, azure_deployment, ollama) ==
    LET max_tokens == default_max_tokens(model) IN
    IF azure_deployment # None THEN
        Handle("ChatLiteLLM", None, Some(AzurePrefix \o Get(azure_deployment)), None,
               Some(max_tokens), None)
    ELSE IF local_model # None THEN
        Handle("LlamaCpp", local_model, None, None, Some(max_tokens), None)
    ELSE IF ollama # None THEN
        Handle("OllamaLLM", None, Some(Get(ollama)[2]), Some(Get(ollama)[1]), None,
               Some(ollama_max_tokens(Get(ollama)[2], max_tokens)))
    ELSE
        Handle("ChatLiteLLM", None, Some(GptModelValue(model)), None, Some(max_tokens), None)

\* the if/elif chain of __init__ (lines 31-58): the handle assigned to self.llm
CreateBackend(model, local_model, azure_deployment, ollama) ==
    LET max_tokens == default_max_tokens(model) IN
    IF local_model # None THEN
        Handle("LlamaCpp", local_model, None, None, Some(max_tokens), None)
    ELSE IF azure_deployment # None THEN
        Handle("ChatLiteLLM", None, Some(AzurePrefix \o Get(azure_deployment)), None,
               Some(max_tokens), None)
    ELSE IF ollama # None THEN
        Handle("OllamaLLM", None, Some(Get(ollama)[2]), Some(Get(ollama)[1]), None,
               Some(ollama_max_tokens(Get(ollama)[2], max_tokens)))
    ELSE
        Handle("ChatLiteLLM", None, Some(GptModelValue(model)), None, Some(max_tokens), None)

\* -------------------------------------------------------------- install_llama_cpp
\* Outcomes of a subprocess.run(..., check=True)
RunOutcomes == {"ok", "CalledProcessError", "FileNotFoundError"}
PipOutcomes == {"ok", "CalledProcessError"}

\* What inquirer.prompt returns: None when the prompt is cancelled, else the answers
Answers == {None, Some(TRUE), Some(FALSE)}

Platforms == { [system |-> "Linux",  mac_ver |-> << >>,      machine |-> "x86_64"],
               [system |-> "Darwin", mac_ver |-> <<10, 10>>, machine |-> "x86_64"],
               [system |-> "Darwin", mac_ver |-> <<14, 2>>,  machine |-> "arm64"] }

\* check_command: True when the command ran, False on either caught exception
check_command(outcome) == outcome = "ok"

\* Python's tuple comparison a >= b
RECURSIVE TupleGE(_, _)
TupleGE(a, b) ==
    IF b = << >> THEN TRUE
    ELSE IF a = << >> THEN FALSE
    ELSE IF Head(a) # Head(b) THEN Head(a) > Head(b)
    ELSE TupleGE(Tail(a), Tail(b))

supports_metal(platform) ==
    platform.system = "Darwin" /\ TupleGE(platform.mac_ver, <<10, 11>>)

\* the capability probes, in order
select_backend(nvidia, rocm, platform) ==
    IF check_command(nvidia) THEN "cuBLAS"
    ELSE IF check_command(rocm) THEN "hipBLAS"
    ELSE IF supports_metal(platform) THEN "Metal"
    ELSE "OpenBLAS"

CmakeArgs(backend) ==
    CASE backend = "cuBLAS"  -> "-DLLAMA_CUBLAS=on"
      [] backend = "hipBLAS" -> "-DLLAMA_HIPBLAS=on"
      [] backend = "Metal"   -> "-DLLAMA_METAL=on"
      [] OTHER               -> "-DLLAMA_BLAS=ON -DLLAMA_BLAS_VENDOR=OpenBLAS"

\* variant: the CalledProcessError of the pip run is not caught
InstallLlamaUncaught(backend, pip) ==
    [raised |-> pip # "ok", out |-> << >>, cmake_args |-> CmakeArgs(backend)]

\* install_llama: the pip run; a CalledProcessError is caught and printed
install_llama(backend, pip) ==
    [raised     |-> FALSE,
     out        |-> IF pip = "CalledProcessError"
                    THEN << "Error during installation with " \o backend \o ": CalledProcessError" >>
                    ELSE << >>,
     cmake_args |-> CmakeArgs(backend)]

AppleWarning(platform) ==
    IF platform.system = "Darwin" /\ platform.machine # "arm64"
    THEN << "Warning: You are using Apple Silicon (M1/M2) Mac but your Python is not of 'arm64' architecture.",
            "The llama.ccp x86 version will be 10x slower on Apple Silicon (M1/M2) Mac.",
            "\nTo install the correct version of Python that supports 'arm64' architecture visit:https://github.com/conda-forge/miniforge" >>
    ELSE << >>

\* install_llama_cpp as a whole: whether it raised, what it printed, and whether the
\* native interface can be imported afterwards
install_llama_cpp(importOk, answers, nvidia, rocm, platform, pip) ==
    IF importOk THEN
        [raised |-> FALSE, out |-> << >>, flavor |-> None, pipFailed |-> FALSE,
         native |-> TRUE]
    ELSE IF answers # None /\ Get(answers) THEN
        LET backend == select_backend(nvidia, rocm, platform)
            inst    == install_llama(backend, pip)
        IN  [raised    |-> inst.raised,
             out       |-> IF inst.raised THEN inst.out
                           ELSE inst.out \o << "Finished downloading Code-Llama interface." >>
                                         \o AppleWarning(platform),
             flavor    |-> Some(backend),
             pipFailed |-> pip # "ok",
             native    |-> pip = "ok"]
    ELSE
        [raised |-> FALSE, out |-> << " Installation cancelled. Exiting. " >>,
         flavor |-> None, pipFailed |-> FALSE, native |-> FALSE]

\* variant: independent ifs, one handle per supplied selector
HandlesBuiltIfChain(model, local_model, azure_deployment, ollama) ==
    (IF local_model # None
     THEN << CreateBackend(model, local_model, None, None) >> ELSE << >>)
    \o (IF azure_deployment # None
        THEN << CreateBackend(model, None, azure_deployment, None) >> ELSE << >>)
    \o (IF ollama # None
        THEN << CreateBackend(model, None, None, ollama) >> ELSE << >>)
    \o (IF local_model = None /\ azure_deployment = None /\ ollama = None
        THEN << CreateBackend(model, None, None, None) >> ELSE << >>)

\* the handles __init__ constructs: one, whatever selectors are supplied
HandlesBuilt(model, local_model, azure_deployment, ollama) ==
    << CreateBackend(model, local_model, azure_deployment, ollama) >>

\* LLM(model, local_model, azure_deployment, ollama), in the environment given by the
\* remaining parameters (read only when local_model is supplied)
LLM_init(model, local_model, azure_deployment, ollama, importOk, answers, nvidia, rocm, platform, pip) ==
    LET inst == install_llama_cpp(importOk, answers, nvidia, rocm, platform, pip)
        hs   == HandlesBuilt(model, local_model, azure_deployment, ollama)
        ran  == local_model # None
        ok   == ~(ran /\ inst.raised)
    IN  /\ pc = "start"
        /\ args' = Some([model |-> model, local_model |-> local_model,
                         azure_deployment |-> azure_deployment, ollama |-> ollama])
        /\ env' = IF ran
                  THEN Some([importOk |-> importOk, answers |-> answers,
                             flavor |-> inst.flavor, pipFailed |-> inst.pipFailed,
                             native |-> inst.native])
                  ELSE None
        /\ stdout' = IF ran THEN stdout \o inst.out ELSE stdout
        /\ built' = IF ok THEN built \o hs ELSE built
        /\ llm' = IF ok THEN Some(hs[Len(hs)]) ELSE llm
        /\ pc' = IF ok THEN "idle" ELSE "init_failed"
        /\ UNCHANGED <<callVars, driverVars>>

\* -------------------------------------------------------------- generate_doc_comment
\* Segments of a prompt text
Lit(s)      == [t |-> "lit",       s |-> s, d |-> << >>]
LangSeg(l)  == [t |-> "language",  s |-> l, d |-> << >>]
DocSeg(d)   == [t |-> "docstring", s |-> "", d |-> d]
CodeSeg(c)  == [t |-> "code",      s |-> c, d |-> << >>]

\* The sentences of the three instruction blocks (the indentation inside the
\* triple-quoted Haskell example is left out)
InlineAdd        == Lit("Add inline comments to the method body where it makes sense.")
ReturnComplete   == Lit("Return the complete method implementation with the doc comment as a single markdown code block. ")
InlineVerbatim   == Lit("IMPORTANT: Ensure that absolutely no part of the original function is omitted or modified in your response. Every line, including imports, comments, and variable bindings, should be retained in the output. This is crucial to satisfy my use case.")
ReuseExisting    == Lit("If a docstring already exists in the code, please reuse its content as much as possible and revise the docstring to reflect any detail that is missing in the existing docstring. ")
ReuseProvided    == Lit("Additionally, the following docstring is also provided, please reuse its content to revise any detail that is missing in the existing docstring ")
SourceVerbatim   == Lit("IMPORTANT: Ensure that absolutely no part of the original function's implementation is omitted or modified in your response. Every line, including imports, comments, and variable bindings, should be retained in the output. This is crucial to satisfy my use case. ")
MayRevise        == Lit("The docstring may, however, be revised. ")
SingleBlock      == Lit("IMPORTANT: It is vital that everything is wrapped inside a single markdown code block only.")
ReturnDocOnly    == Lit("Return the doc comment as a single markdown block. ")
MultiLine        == Lit("If the doc comment consists of more than one sentence then please follow multi-line comments.")
NoCode           == Lit("IMPORTANT: Please avoid writing any code in the markdown block. ")
DelimitersFor    == Lit("Ensure that the markdown block contains only doc comments and enclose them appropriately using the correct comment delimiters for the ")
LanguageWord     == Lit(" language.")
HaskellExample   == Lit("\nExample Comment for Haskell language:\n-- | This is the first line of a demo comment.\n-- This is the second line of a demo comment.\"\ni.e. Correct comment delimiters for Haskell language is '-- ' where the first line of the comment will be prefixed with '-- | '.\n")
NoTrivial        == Lit("Strictly avoid writing detailed comments for self-explanatory functions.")
NoParameters     == Lit("IMPORTANT: Strictly refrain from detailing input parameters or specifying what the function takes as input and its definition. This is crucial to meet my use case.")
FollowFormat     == Lit("IMPORTANT: Please follow only the specified format. This is very important to satisfy my use case.")
MissingSignature == Lit("and missing type signatures ")

\* variant: the test is `if docstring` alone
HasDocstringNonEmpty(docstring) == docstring # << >>

\* if docstring and len(docstring.strip())>0
has_docstring(docstring) == docstring # << >> /\ Len(strip(docstring)) > 0

inline_instructions == << InlineAdd, ReturnComplete, InlineVerbatim >>

\* variant: the preservation sentence is missing
SourceInstructionsNoVerbatim(docstring) ==
    << ReturnComplete, ReuseExisting >>
    \o (IF has_docstring(docstring)
        THEN << ReuseProvided, DocSeg(docstring), Lit(". ") >> ELSE << >>)
    \o << MayRevise, SingleBlock >>

\* lines 92-103
source_instructions(docstring) ==
    << ReturnComplete, ReuseExisting >>
    \o (IF has_docstring(docstring)
        THEN << ReuseProvided, DocSeg(docstring), Lit(". ") >> ELSE << >>)
    \o << SourceVerbatim, MayRevise, SingleBlock >>

\* variant: the sentence on input parameters is missing
DocOnlyInstructionsNoParamBan(language) ==
    << ReturnDocOnly, MultiLine, NoCode, DelimitersFor, LangSeg(language), LanguageWord,
       HaskellExample, NoTrivial, FollowFormat >>

\* lines 105-118
doc_only_instructions(language) ==
    << ReturnDocOnly, MultiLine, NoCode, DelimitersFor, LangSeg(language), LanguageWord,
       HaskellExample, NoTrivial, NoParameters, FollowFormat >>

\* variant: comment_with_source_code is tested before inline
CommentInstructionsSourceFirst(language, inline, comment_with_source_code, docstring) ==
    IF comment_with_source_code THEN source_instructions(docstring)
    ELSE IF inline THEN inline_instructions
    ELSE doc_only_instructions(language)

\* the if/elif/else on the two mode flags (lines 85-118)
comment_instructions(language, inline, comment_with_source_code, docstring) ==
    IF inline THEN inline_instructions
    ELSE IF comment_with_source_code THEN source_instructions(docstring)
    ELSE doc_only_instructions(language)

\* variant: the language is compared without regard to case
HaskellMissingSignatureAnyCase(language) ==
    IF language \in {"haskell", "Haskell"} THEN << MissingSignature >> ELSE << >>

\* lines 120-123
haskell_missing_signature(language) ==
    IF language = "haskell" THEN << MissingSignature >> ELSE << >>

\* self.template.invoke(input): the two messages of the ChatPromptTemplate
template_invoke(language, code, instructions, missing_signature) ==
    << [role    |-> "system",
        content |-> << Lit("Act as a software documentation expert in "), LangSeg(language),
                       Lit(" language. "),
                       Lit("Add detailed doc comments to the provided method without changing any code "),
                       Lit("The doc comments should describe what the method does. ") >>
                    \o instructions
                    \o << Lit(" "), Lit("Don't include any explanations ") >>
                    \o missing_signature
                    \o << Lit("in your response.") >>],
       [role    |-> "user",
        content |-> << CodeSeg(code) >>] >>

\* the prompt generate_doc_comment hands to self.llm.invoke
build_prompt(req) ==
    template_invoke(req.language, req.code,
                    comment_instructions(req.language, req.inline,
                                         req.comment_with_source_code, req.docstring),
                    haskell_missing_signature(req.language))

\* variant: the backend's text is replaced before it is returned
ReturnStripped(documented_code) == ""

\* return documented_code
generate_return(documented_code) == documented_code

\* Inputs of generate_doc_comment
Languages == {"python", "haskell", "Haskell", "c"}
Codes     == {"def add(a,b): return a+b", "add a b = a + b"}
DocChars  == {" ", "\n", "d"}
Docstrings == UNION {[1..n -> DocChars] : n \in 0..MaxDocLen}

Requests ==
    [language : Languages, code : Codes, inline : BOOLEAN,
     comment_with_source_code : BOOLEAN, docstring : Docstrings]

CallerRequests ==
    [language : {"python", "haskell"}, code : {"def add(a,b): return a+b"}, inline : {FALSE},
     comment_with_source_code : BOOLEAN, docstring : {<< >>}]

\* What the backend can answer, and how it can fail
BackendTexts  == {"", "# Adds a and b."}
BackendErrors == {"ImportError", "ConnectionError"}

\* generate_doc_comment up to and including the call of self.llm.invoke(prompt)
GenerateCall(req) ==
    /\ pc = "idle"
    /\ calls < MaxCalls
    /\ call' = Some([req |-> req, prompt |-> build_prompt(req)])
    /\ repeated' = (call # None /\ Get(call).req = req)
    /\ calls' = calls + 1
    /\ invocations' = invocations + 1
    /\ backendOut' = None
    /\ result' = None
    /\ pc' = "invoking"
    /\ UNCHANGED llmVars

\* self.llm.invoke returns: generate_doc_comment returns documented_code
BackendReturns(text) ==
    /\ pc = "invoking"
    /\ backendOut' = Some([kind |-> "return", value |-> text])
    /\ result' = Some([kind |-> "return", value |-> generate_return(text)])
    /\ pc' = "idle"
    /\ UNCHANGED <<llmVars, driverVars, call, repeated, calls, invocations>>

\* self.llm.invoke raises: nothing in generate_doc_comment catches it
BackendRaises(err) ==
    /\ pc = "invoking"
    /\ backendOut' = Some([kind |-> "raise", value |-> err])
    /\ result' = Some([kind |-> "raise", value |-> err])
    /\ pc' = "idle"
    /\ UNCHANGED <<llmVars, driverVars, call, repeated, calls, invocations>>

\* -------------------------------------------------------------- docgen.py
DocgenPy  == <<"d","o","c","g","e","n",".","p","y">>
FileNames == { <<"a",".","p","y">>, <<"b",".","c">>, <<"n",".","m","d">> }

\* str.endswith(suffix)
endswith(s, suffix) ==
    /\ Len(s) >= Len(suffix)
    /\ \A i \in 1..Len(suffix) : s[Len(s) - Len(suffix) + i] = suffix[i]

\* one iteration of `for filepath in files` up to the call of main()
DriverNextFile(filepath) ==
    /\ pc = "idle"
    /\ curFile = None
    /\ fileIdx < MaxFiles
    /\ fileIdx' = fileIdx + 1
    /\ IF endswith(filepath, <<".","c">>) \/ endswith(filepath, <<".","p","y">>)
       THEN /\ argv' = IF first THEN Append(argv, filepath)
                       ELSE [argv EXCEPT ![Len(argv)] = filepath]
            /\ first' = FALSE
            /\ curFile' = Some(filepath)
       ELSE UNCHANGED <<argv, first, curFile>>
    /\ UNCHANGED <<pc, llmVars, callVars>>

\* main() -> app.run() documents one function of the current file
AppRunGenerate(req) ==
    /\ curFile # None
    /\ GenerateCall(req)
    /\ UNCHANGED driverVars

\* main() -> app.run() returns to the file loop
AppRunReturns ==
    /\ pc = "idle"
    /\ curFile # None
    /\ curFile' = None
    /\ UNCHANGED <<pc, llmVars, callVars, fileIdx, first, argv>>

\* -------------------------------------------------------------- specifications
Init ==
    /\ pc = "start"
    /\ args = None
    /\ env = None
    /\ llm = None
    /\ built = << >>
    /\ stdout = << >>
    /\ call = None
    /\ repeated = FALSE
    /\ calls = 0
    /\ invocations = 0
    /\ backendOut = None
    /\ result = None
    /\ fileIdx = 0
    /\ first = TRUE
    /\ argv = << DocgenPy >>
    /\ curFile = None

\* The constructor with every combination of selectors, in every environment
Construct ==
    /\ pc = "start"
    /\ \E model \in GptModel, local_model \in LocalModels,
          azure_deployment \in AzureDeployments, ollama \in Ollamas :
          \E importOk \in BOOLEAN, answers \in Answers, nvidia \in RunOutcomes,
             rocm \in RunOutcomes, platform \in Platforms, pip \in PipOutcomes :
             LLM_init(model, local_model, azure_deployment, ollama,
                      importOk, answers, nvidia, rocm, platform, pip)

\* Any caller of generate_doc_comment
CallerGenerate(reqs) ==
    /\ pc = "idle"
    /\ \E req \in reqs : GenerateCall(req) /\ UNCHANGED driverVars

\* Backend construction in every environment, then calls by any caller
Next ==
    \/ Construct
    \/ CallerGenerate(CallerRequests)
    \/ \E text \in BackendTexts : BackendReturns(text)
    \/ \E err \in BackendErrors : BackendRaises(err)

Spec == Init /\ [][Next]_vars

\* The constructor with every combination of selectors, the native interface present
ConstructConfigured ==
    /\ pc = "start"
    /\ \E model \in GptModel, local_model \in LocalModels,
          azure_deployment \in AzureDeployments, ollama \in Ollamas :
          LLM_init(model, local_model, azure_deployment, ollama, TRUE, None, "ok", "ok",
                   CHOOSE p \in Platforms : p.system = "Linux", "ok")

\* docgen.py: one process, the files of the walk one after another
DriverNext ==
    \/ ConstructConfigured
    \/ \E filepath \in FileNames : DriverNextFile(filepath)
    \/ \E req \in CallerRequests : AppRunGenerate(req)
    \/ AppRunReturns
    \/ \E text \in BackendTexts : BackendReturns(text)
    \/ \E err \in BackendErrors : BackendRaises(err)

DriverSpec == Init /\ [][DriverNext]_vars

\* The constructor with no local file and no deployment
ConstructPlain ==
    /\ pc = "start"
    /\ \E model \in GptModel :
          LLM_init(model, None, None, None, TRUE, None, "ok", "ok",
                   CHOOSE p \in Platforms : p.system = "Linux", "ok")

\* A caller's first call, with any request
CallerFirst ==
    /\ calls = 0
    /\ CallerGenerate(Requests)

\* A caller calling again with the input of its previous call
CallerRepeats ==
    /\ calls > 0
    /\ CallerGenerate({Get(call).req})

\* The prompt builder on every request
PromptNext ==
    \/ ConstructPlain
    \/ CallerFirst
    \/ CallerRepeats
    \/ \E text \in BackendTexts : BackendReturns(text)
    \/ \E err \in BackendErrors : BackendRaises(err)

PromptSpec == Init /\ [][PromptNext]_vars

\* -------------------------------------------------------------- properties
Constructed == pc \in {"idle", "invoking"}

\* the system instructions of the current (or last) call
SystemContent == Get(call).prompt[1].content
Req           == Get(call).req

NoneOfType(content, t) == \A i \in 1..Len(content) : content[i].t # t

\* C1: LLM.__init__ builds the backend of the first supplied selector in the order
\* local file, enterprise deployment, network server, hosted default; the handle
\* carries that selector's identity (model_path, "azure/<deployment>", base_url and
\* model name, or the plain model name) and no field of another supplied selector.
C1_FirstSuppliedSelectorWins ==
    Constructed =>
        LET a == Get(args)
            h == Get(llm)
        IN  /\ a.local_model # None =>
                /\ h.cls = "LlamaCpp"
                /\ h.model_path = a.local_model
                /\ h.model = None /\ h.base_url = None /\ h.num_ctx = None
            /\ a.local_model = None /\ a.azure_deployment # None =>
                /\ h.cls = "ChatLiteLLM"
                /\ h.model = Some(<<"a","z","u","r","e","/">> \o Get(a.azure_deployment))
                /\ h.model_path = None /\ h.base_url = None /\ h.num_ctx = None
            /\ a.local_model = None /\ a.azure_deployment = None /\ a.ollama # None =>
                /\ h.cls = "OllamaLLM"
                /\ h.base_url = Some(Get(a.ollama)[1])
                /\ h.model = Some(Get(a.ollama)[2])
                /\ h.model_path = None /\ h.max_tokens = None
            /\ a.local_model = None /\ a.azure_deployment = None /\ a.ollama = None =>
                /\ h.cls = "ChatLiteLLM"
                /\ h.model = Some(GptModelValue(a.model))
                /\ h.model_path = None /\ h.base_url = None /\ h.num_ctx = None

\* C1 witness: all three selectors supplied, the local-file backend was built
C1_Witness ==
    /\ Constructed
    /\ Get(args).local_model # None
    /\ Get(args).azure_deployment # None
    /\ Get(args).ollama # None
    /\ Get(llm).cls = "LlamaCpp"
    /\ Get(llm).model_path = Get(args).local_model

\* the token budget handed to the backend (num_ctx for OllamaLLM, max_tokens otherwise)
Budget(h) == IF h.cls = "OllamaLLM" THEN h.num_ctx ELSE h.max_tokens

GenericBudget(a) == IF a.model = "GPT_35" THEN 2048 ELSE 4096

IsLlamaName(name) == Len(name) >= 5 /\ SubSeq(name, 1, 5) = <<"l","l","a","m","a">>

OllamaSelected(a) ==
    a.local_model = None /\ a.azure_deployment = None /\ a.ollama # None

\* C2: when the ollama backend is the one selected and its model name starts with
\* 'llama' the budget is 32768 whatever the model family; for any other ollama name,
\* and for every other backend kind even when a 'llama' pair is also supplied, the
\* budget is the generic default (2048 for GPT_35, 4096 otherwise).
C2_LongContextBudget ==
    Constructed =>
        LET a == Get(args)
            h == Get(llm)
        IN  Budget(h) = Some(IF OllamaSelected(a) /\ IsLlamaName(Get(a.ollama)[2])
                             THEN 32768 ELSE GenericBudget(a))

\* C2 witness: ollama selected with the name llama3 and the GPT_35 family
C2_Witness ==
    /\ Constructed
    /\ OllamaSelected(Get(args))
    /\ Get(args).model = "GPT_35"
    /\ Get(Get(args).ollama)[2] = <<"l","l","a","m","a","3">>
    /\ Get(llm).num_ctx = Some(32768)

SourceEmbedded(r) == ~r.inline /\ r.comment_with_source_code
DocOnly(r)        == ~r.inline /\ ~r.comment_with_source_code

\* the docstring text follows the directive that introduces it
IncludesDocstring(content, docstring) ==
    \E i \in 1..(Len(content) - 1) :
        content[i] = ReuseProvided /\ content[i + 1] = DocSeg(docstring)

OnlyReuseExisting(content) ==
    /\ ReuseExisting \in Range(content)
    /\ ReuseProvided \notin Range(content)
    /\ NoneOfType(content, "docstring")

\* C3 as stated: in SourceEmbedded mode every non-empty docstring, a whitespace-only
\* one included, appears verbatim in the instructions; an empty one leaves only the
\* directive to reuse a docstring already present in the code.
C3_Original ==
    (call # None /\ SourceEmbedded(Req)) =>
        IF Req.docstring # << >>
        THEN IncludesDocstring(SystemContent, Req.docstring)
        ELSE OnlyReuseExisting(SystemContent)

HasNonWhitespace(docstring) ==
    \E i \in 1..Len(docstring) : docstring[i] \notin {" ", "\t", "\n", "\r"}

\* C3 amended: in SourceEmbedded mode a docstring with at least one non-whitespace
\* character appears verbatim (surrounding whitespace kept) in the instructions; an
\* empty or whitespace-only docstring leaves only the directive to reuse a docstring
\* already present in the code.
C3_DocstringReuse ==
    (call # None /\ SourceEmbedded(Req)) =>
        /\ ReuseExisting \in Range(SystemContent)
        /\ IF HasNonWhitespace(Req.docstring)
           THEN IncludesDocstring(SystemContent, Req.docstring)
           ELSE OnlyReuseExisting(SystemContent)

\* C3 witness: a docstring with leading whitespace is included as given
C3_Witness ==
    /\ call # None
    /\ SourceEmbedded(Req)
    /\ Req.docstring = <<" ", "d">>
    /\ IncludesDocstring(SystemContent, <<" ", "d">>)

\* C4: in every mode the instructions include the missing-type-signature directive
\* if and only if target_language is exactly "haskell".
C4_HaskellSignature ==
    call # None =>
        ((MissingSignature \in Range(SystemContent)) <=> (Req.language = "haskell"))

\* C4 witness: an Inline request for haskell carries the directive
C4_Witness ==
    /\ call # None
    /\ Req.language = "haskell"
    /\ Req.inline
    /\ MissingSignature \in Range(SystemContent)

\* C5: in DocOnly mode, for every language, the instructions forbid code in the
\* output, forbid parameter descriptions, and the delimiter directive names the
\* target language.
C5_DocOnlyDirectives ==
    (call # None /\ DocOnly(Req)) =>
        /\ NoCode \in Range(SystemContent)
        /\ NoParameters \in Range(SystemContent)
        /\ \E i \in 1..(Len(SystemContent) - 1) :
              SystemContent[i] = DelimitersFor /\ SystemContent[i + 1] = LangSeg(Req.language)

\* C5 witness: a DocOnly request for c
C5_Witness ==
    /\ call # None
    /\ DocOnly(Req)
    /\ Req.language = "c"
    /\ NoParameters \in Range(SystemContent)

\* C6: in Inline and SourceEmbedded mode the instructions contain the
\* verbatim-preservation directive, for every language, with or without a docstring,
\* and when both flags are set.
C6_VerbatimPreservation ==
    (call # None /\ (Req.inline \/ Req.comment_with_source_code)) =>
        (InlineVerbatim \in Range(SystemContent) \/ SourceVerbatim \in Range(SystemContent))

\* C6 witness: SourceEmbedded with a docstring supplied
C6_Witness ==
    /\ call # None
    /\ SourceEmbedded(Req)
    /\ HasNonWhitespace(Req.docstring)
    /\ SourceVerbatim \in Range(SystemContent)

\* C7: every generate_doc_comment call makes exactly one backend invocation, with the
\* instructions in the system role and the code in the user role, and ends with that
\* invocation's outcome: a returned text unmodified, a failure propagated; no retry,
\* and a repeated call with identical input invokes the backend again.
C7_OneInvocationPerCall ==
    /\ invocations = calls
    /\ call # None =>
        LET prompt == Get(call).prompt IN
        /\ Len(prompt) = 2
        /\ prompt[1].role = "system" /\ prompt[2].role = "user"
        /\ prompt[2].content = << CodeSeg(Req.code) >>
        /\ NoneOfType(prompt[1].content, "code")
    /\ (pc = "invoking") => (result = None /\ backendOut = None)
    /\ (pc = "idle" /\ calls > 0) => (backendOut # None /\ result = backendOut)

\* C7 witness: the second of two calls with identical input returned the backend's text
C7_Witness ==
    /\ pc = "idle"
    /\ calls = 2
    /\ repeated
    /\ invocations = 2
    /\ result = Some([kind |-> "return", value |-> "# Adds a and b."])

C10_ModePrecedence ==
    call # None =>
        LET c      == Range(SystemContent)
            Inl    == {InlineAdd, InlineVerbatim}
            Src    == {ReuseExisting, ReuseProvided, SourceVerbatim, MayRevise, SingleBlock}
            Doc    == {ReturnDocOnly, MultiLine, NoCode, DelimitersFor, HaskellExample,
                       NoTrivial, NoParameters, FollowFormat}
        IN  /\ Req.inline =>
                /\ Inl \subseteq c
                /\ c \cap (Src \cup Doc) = {}
                /\ NoneOfType(SystemContent, "docstring")
            /\ SourceEmbedded(Req) =>
                /\ {ReuseExisting, SourceVerbatim, MayRevise, SingleBlock} \subseteq c
                /\ c \cap (Inl \cup Doc) = {}
            /\ DocOnly(Req) =>
                /\ Doc \subseteq c
                /\ c \cap (Inl \cup Src) = {}
                /\ NoneOfType(SystemContent, "docstring")

\* C10 witness: both flags set and a docstring supplied, the Inline block alone is built
C10_Witness ==
    /\ call # None
    /\ Req.inline
    /\ Req.comment_with_source_code
    /\ Req.docstring = <<"d">>
    /\ InlineAdd \in Range(SystemContent)
    /\ NoneOfType(SystemContent, "docstring")

====
